---------------------------- MODULE Spec2Model ----------------------------
(***************************************************************************)
(* Model of the bit-level helpers of include/helpers/utils.hpp (namespace  *)
(* hex): extract, signExtend, the type-tag predicates, getTypeSize and the *)
(* two overloads of changeEndianess.                                       *)
(*                                                                         *)
(* A u64 is a bit vector: a function from bit index 0..63 (0 = least       *)
(* significant) to {0, 1}.  The C++ operators on u64 are modelled bit by   *)
(* bit, so that every result is exact modulo 2^64.                         *)
(***************************************************************************)
EXTENDS Integers, Sequences, FiniteSets

VARIABLES
    pc,           \* the call the caller makes next ("done" after the last)
    native,       \* std::endian::native of the build
    value,        \* argument `value` of the first call
    from, to,     \* arguments of extract
    currWidth,    \* argument of signExtend
    targetWidth,  \* argument of signExtend
    type,         \* the type tag, a u32
    overload,     \* the changeEndianess overload called: "typed" or "sized"
    T,            \* the integer type changeEndianess is instantiated with
    size,         \* argument `size` of the sized changeEndianess
    endian,       \* argument `endian` of changeEndianess
    rets,         \* the values returned so far, in call order
    thrown        \* the exception that ended the caller, or "none"

vars == <<pc, native, value, from, to, currWidth, targetWidth, type,
          overload, T, size, endian, rets, thrown>>

\* the arguments: no call changes them (all are passed by value or const &)
inputs == <<native, value, from, to, currWidth, targetWidth, type,
            overload, T, size, endian>>

(***************************************************************************)
(* u64 arithmetic                                                          *)
(***************************************************************************)
WordBits == 64

BitIdx == 0 .. (WordBits - 1)

\* u64 literal 0
Zero == [i \in BitIdx |-> 0]

\* the literal 1LLU
One == [i \in BitIdx |-> IF i = 0 THEN 1 ELSE 0]

\* std::numeric_limits<u64>::max()
AllOnes == [i \in BitIdx |-> 1]

\* x << n on u64, 0 <= n <= 63
Shl(x, n) == [i \in BitIdx |-> IF i >= n THEN x[i - n] ELSE 0]

\* x >> n on u64 (logical: the operand is unsigned), 0 <= n <= 63
Shr(x, n) == [i \in BitIdx |-> IF i + n < WordBits THEN x[i + n] ELSE 0]

\* x & y
And(x, y) == [i \in BitIdx |-> x[i] * y[i]]

\* x ^ y
Xor(x, y) == [i \in BitIdx |-> (x[i] + y[i]) % 2]

\* x | y
Or(x, y) == [i \in BitIdx |-> IF x[i] + y[i] > 0 THEN 1 ELSE 0]

RECURSIVE SubFrom(_, _, _, _)
\* bits i..63 of x - y given the borrow into bit i (ripple borrow)
SubFrom(x, y, i, borrow) ==
    IF i = WordBits THEN <<>>
    ELSE LET d == x[i] - y[i] - borrow
         IN  <<d % 2>> \o SubFrom(x, y, i + 1, IF d < 0 THEN 1 ELSE 0)

\* x - y on u64: wraps modulo 2^64
Sub(x, y) == LET s == SubFrom(x, y, 0, 0) IN [i \in BitIdx |-> s[i + 1]]

\* conversion of a u64 to an unsigned type of `bits` bits: keeps the low bits
Truncate(x, bits) == [i \in BitIdx |-> IF i < bits THEN x[i] ELSE 0]

(***************************************************************************)
(* Input words                                                             *)
(***************************************************************************)
\* the u64 written as 16 hexadecimal digits, most significant first
FromHex(h) ==
    [i \in BitIdx |->
        IF i \div 4 < Len(h)
        THEN (h[Len(h) - (i \div 4)] \div (2 ^ (i % 4))) % 2
        ELSE 0]

Patterns ==
    << <<0,0,0,0, 0,0,0,0, 1,2,3,4, 10,11,15,15>>,      \* 0x000000001234ABFF
       <<8,1,2,3, 4,5,6,7, 8,9,10,11, 12,13,14,10>>,     \* 0x8123456789ABCDEA
       <<15,15,15,15, 15,15,15,15, 15,15,15,15, 15,15,15,15>>,
       <<0,0,0,0, 0,0,0,0, 0,0,0,0, 0,0,0,0>>,
       <<10,5,10,5, 10,5,10,5, 5,10,5,10, 5,10,5,10>>,   \* 0xA5A5A5A55A5A5A5A
       <<15,14,13,12, 11,10,9,8, 7,6,5,4, 3,2,1,0>> >>   \* 0xFEDCBA9876543210

\* number of input words the inputs are drawn from
NumWords == 4

\* the k-th input word; past the listed patterns, a striped word of period k
Word(k) ==
    IF k <= Len(Patterns) THEN FromHex(Patterns[k])
    ELSE [i \in BitIdx |-> IF (i % k) * 2 < k THEN 1 ELSE 0]

Words == {Word(k) : k \in 1 .. NumWords}

(***************************************************************************)
(* extract                                                                 *)
(***************************************************************************)
\* extract with the right shift of the mask one too large (64 for 63)
extractMaskOneShort(f, t, v) ==
    LET mask == Shl(Shr(AllOnes, WordBits - (f - t)), t)
    IN  Shr(And(v, mask), t)

\* extract without the final >> to
extractKeepsPosition(f, t, v) ==
    LET mask == Shl(Shr(AllOnes, (WordBits - 1) - (f - t)), t)
    IN  And(v, mask)

\* u64 mask = (max() >> (63 - (from - to))) << to;  return (value & mask) >> to;
extract(f, t, v) ==
    LET mask == Shl(Shr(AllOnes, (WordBits - 1) - (f - t)), t)
    IN  Shr(And(v, mask), t)

(***************************************************************************)
(* signExtend                                                              *)
(***************************************************************************)
\* signExtend with mask = 1LLU << currWidth
signExtendMaskAtWidth(v, cw, tw) ==
    LET mask == Shl(One, cw)
    IN  Shr(Shl(Sub(Xor(v, mask), mask), WordBits - tw), WordBits - tw)

\* signExtend clearing the bits of value at and above currWidth first
signExtendMasksValue(v, cw, tw) ==
    LET mask == Shl(One, cw - 1)
        low == Truncate(v, cw)
    IN  Shr(Shl(Sub(Xor(low, mask), mask), WordBits - tw), WordBits - tw)

\* u64 mask = 1LLU << (currWidth - 1);
\* return (((value ^ mask) - mask) << (64 - targetWidth)) >> (64 - targetWidth);
signExtend(v, cw, tw) ==
    LET mask == Shl(One, cw - 1)
    IN  Shr(Shl(Sub(Xor(v, mask), mask), WordBits - tw), WordBits - tw)

(***************************************************************************)
(* Type tags.  static_cast<u32>(type) is the tag's low 32 bits.            *)
(***************************************************************************)
TagBits == 32

u32(t) == Truncate(t, TagBits)

\* (static_cast<u32>(type) & 0x0F) == 0x00
isUnsigned(t) == And(u32(t), FromHex(<<0, 15>>)) = FromHex(<<0, 0>>)

\* isSigned with the mask 0x03
isSignedLowTwoBits(t) == And(u32(t), FromHex(<<0, 3>>)) = FromHex(<<0, 1>>)

\* (static_cast<u32>(type) & 0x0F) == 0x01
isSigned(t) == And(u32(t), FromHex(<<0, 15>>)) = FromHex(<<0, 1>>)

\* (static_cast<u32>(type) & 0x0F) == 0x02
isFloatingPoint(t) == And(u32(t), FromHex(<<0, 15>>)) = FromHex(<<0, 2>>)

\* static_cast<u32>(type) >> 4
getTypeSize(t) == Shr(u32(t), 4)

(***************************************************************************)
(* changeEndianess                                                         *)
(***************************************************************************)
\* the integer types T: sizeof(T) and signedness.  A value of T is held as
\* its bit pattern in the low 8 * sizeof(T) bits of a word.
IntTypes == [size : {1, 2, 4, 8}, signed : BOOLEAN]

u64T == [size |-> 8, signed |-> FALSE]

\* implicit conversion of a value of T to the unsigned type of `bits` bits
\* (the argument of a __builtin_bswap): modulo 2^bits, a signed T widening
\* by sign extension
ToUnsigned(v, Ty, bits) ==
    IF bits <= 8 * Ty.size THEN Truncate(v, bits)
    ELSE IF Ty.signed
         THEN [i \in BitIdx |->
                 IF i < 8 * Ty.size THEN v[i]
                 ELSE IF i < bits THEN v[8 * Ty.size - 1] ELSE 0]
         ELSE v

\* implicit conversion of an unsigned result to the return type T
ToT(r, Ty) == Truncate(r, 8 * Ty.size)

ByteMask == FromHex(<<15, 15>>)

\* a 16-bit swap that loses the high byte
bswap16LowByteOnly(x) == Shl(And(x, ByteMask), 8)

\* __builtin_bswap16 on a uint16_t
bswap16(x) ==
    Or(Shl(And(x, ByteMask), 8), And(Shr(x, 8), ByteMask))

\* a 32-bit swap that exchanges the 16-bit halves, not the bytes
bswap32SwapsHalves(x) ==
    Or(Shl(And(x, FromHex(<<15, 15, 15, 15>>)), 16),
       And(Shr(x, 16), FromHex(<<15, 15, 15, 15>>)))

\* __builtin_bswap32 on a uint32_t
bswap32(x) ==
    Or(Or(Shl(And(x, ByteMask), 24), Shl(And(Shr(x, 8), ByteMask), 16)),
       Or(Shl(And(Shr(x, 16), ByteMask), 8), And(Shr(x, 24), ByteMask)))

\* __builtin_bswap64 on a uint64_t
bswap64(x) ==
    Or(Shl(bswap32(Truncate(x, 32)), 32), bswap32(Shr(x, 32)))

\* what a call leaves its caller: a returned value or a thrown exception
Return(v) == [value |-> v, thrown |-> "none"]
Throw(e) == [value |-> Zero, thrown |-> e]

\* template<typename T> constexpr T changeEndianess(T value, std::endian endian)
changeEndianess(Ty, v, e, nat) ==
    IF e = nat THEN Return(v)
    ELSE IF Ty.size = 1 THEN Return(v)
    ELSE IF Ty.size = 2 THEN Return(ToT(bswap16(ToUnsigned(v, Ty, 16)), Ty))
    ELSE IF Ty.size = 4 THEN Return(ToT(bswap32(ToUnsigned(v, Ty, 32)), Ty))
    ELSE Return(ToT(bswap64(ToUnsigned(v, Ty, 64)), Ty))

\* the sized overload with the size checked before the byte order
changeEndianessSizedChecksFirst(Ty, v, sz, e, nat) ==
    IF sz \notin {1, 2, 4, 8} THEN Throw("invalid_argument")
    ELSE IF e = nat \/ sz = 1 THEN Return(v)
    ELSE IF sz = 2 THEN Return(ToT(bswap16(ToUnsigned(v, Ty, 16)), Ty))
    ELSE IF sz = 4 THEN Return(ToT(bswap32(ToUnsigned(v, Ty, 32)), Ty))
    ELSE Return(ToT(bswap64(ToUnsigned(v, Ty, 64)), Ty))

\* the sized overload with size 4 dispatched to the 16-bit swap
changeEndianessSizedFourAsTwo(Ty, v, sz, e, nat) ==
    IF e = nat THEN Return(v)
    ELSE IF sz = 1 THEN Return(v)
    ELSE IF sz = 2 \/ sz = 4 THEN Return(ToT(bswap16(ToUnsigned(v, Ty, 16)), Ty))
    ELSE IF sz = 8 THEN Return(ToT(bswap64(ToUnsigned(v, Ty, 64)), Ty))
    ELSE Throw("invalid_argument")

\* template<typename T>
\* constexpr T changeEndianess(T value, size_t size, std::endian endian)
changeEndianessSized(Ty, v, sz, e, nat) ==
    IF e = nat THEN Return(v)
    ELSE IF sz = 1 THEN Return(v)
    ELSE IF sz = 2 THEN Return(ToT(bswap16(ToUnsigned(v, Ty, 16)), Ty))
    ELSE IF sz = 4 THEN Return(ToT(bswap32(ToUnsigned(v, Ty, 32)), Ty))
    ELSE IF sz = 8 THEN Return(ToT(bswap64(ToUnsigned(v, Ty, 64)), Ty))
    ELSE Throw("invalid_argument")

(***************************************************************************)
(* Callers.  Each specification is one caller: Init draws its arguments,   *)
(* the actions are its calls.                                              *)
(***************************************************************************)
Widths == 1 .. WordBits

Last(s) == s[Len(s)]

\* arguments a caller does not use
NoRange == from = 0 /\ to = 0
NoWidths == currWidth = 1 /\ targetWidth = 1
NoType == type = Zero
NoSwap == overload = "none" /\ T = u64T /\ size = 1 /\ endian = "little"
             /\ native = "little"

Start(first) == pc = first /\ rets = <<>> /\ thrown = "none"

\* ---- a caller of extract -------------------------------------------------
InitExtract ==
    /\ Start("extract")
    /\ value \in Words
    /\ from \in BitIdx
    /\ to \in 0 .. from
    /\ NoWidths /\ NoType /\ NoSwap

CallExtract ==
    /\ pc = "extract"
    /\ rets' = Append(rets, extract(from, to, value))
    /\ pc' = "done"
    /\ UNCHANGED <<inputs, thrown>>

SpecExtract == InitExtract /\ [][CallExtract]_vars

\* ---- a caller of signExtend ----------------------------------------------
InitSignExtend ==
    /\ Start("signExtend")
    /\ currWidth \in Widths
    /\ targetWidth \in Widths
    /\ \E w \in Words : value \in {w, Truncate(w, currWidth)}
    /\ NoRange /\ NoType /\ NoSwap

CallSignExtend ==
    /\ pc = "signExtend"
    /\ rets' = Append(rets, signExtend(value, currWidth, targetWidth))
    /\ pc' = "done"
    /\ UNCHANGED <<inputs, thrown>>

SpecSignExtend == InitSignExtend /\ [][CallSignExtend]_vars

\* ---- a caller decoding a type tag ----------------------------------------
\* largest type size (the tag's bits above the class nibble) drawn directly
MaxTypeSize == 16

\* the u64 holding the small number n
FromNat(n) == [i \in BitIdx |-> IF i < 16 THEN (n \div (2 ^ i)) % 2 ELSE 0]

\* a tag: `high` above the class nibble `class`
MakeTag(high, class) == u32(Or(Shl(high, 4), FromNat(class)))

Tags ==
    {MakeTag(h, c) : h \in Words \cup {FromNat(n) : n \in 0 .. MaxTypeSize},
                     c \in 0 .. 15}

InitDecode ==
    /\ Start("isUnsigned")
    /\ type \in Tags
    /\ value = Zero
    /\ NoRange /\ NoWidths /\ NoSwap

CallIsUnsigned ==
    /\ pc = "isUnsigned"
    /\ rets' = Append(rets, isUnsigned(type))
    /\ pc' = "isSigned"
    /\ UNCHANGED <<inputs, thrown>>

CallIsSigned ==
    /\ pc = "isSigned"
    /\ rets' = Append(rets, isSigned(type))
    /\ pc' = "isFloatingPoint"
    /\ UNCHANGED <<inputs, thrown>>

CallIsFloatingPoint ==
    /\ pc = "isFloatingPoint"
    /\ rets' = Append(rets, isFloatingPoint(type))
    /\ pc' = "getTypeSize"
    /\ UNCHANGED <<inputs, thrown>>

CallGetTypeSize ==
    /\ pc = "getTypeSize"
    /\ rets' = Append(rets, getTypeSize(type))
    /\ pc' = "done"
    /\ UNCHANGED <<inputs, thrown>>

NextDecode ==
    \/ CallIsUnsigned
    \/ CallIsSigned
    \/ CallIsFloatingPoint
    \/ CallGetTypeSize

SpecDecode == InitDecode /\ [][NextDecode]_vars

\* ---- a caller converting a value twice with the same arguments -----------
\* largest byte count passed to the sized overload
MaxSize == 9

Min(a, b) == IF a <= b THEN a ELSE b

InitSwap ==
    /\ Start("changeEndianess")
    /\ native \in {"little", "big"}
    /\ endian \in {"little", "big"}
    /\ T \in IntTypes
    /\ \/ overload = "typed" /\ size = T.size
       \/ overload = "sized" /\ size \in 0 .. MaxSize
    /\ \E w \in Words :
          value \in {Truncate(w, 8 * T.size), Truncate(w, 8 * Min(size, T.size))}
    /\ NoRange /\ NoWidths /\ NoType

\* the value the next call converts: the argument, then the first result
Operand == IF rets = <<>> THEN value ELSE Last(rets)

\* the caller calls twice
Again == IF rets = <<>> THEN "changeEndianess" ELSE "done"

\* the caller after a call left it r: it goes on to `next`, or the exception
\* ends it
AfterCall(r, next) ==
    IF r.thrown = "none"
    THEN /\ rets' = Append(rets, r.value)
         /\ pc' = next
         /\ UNCHANGED thrown
    ELSE /\ thrown' = r.thrown
         /\ pc' = "done"
         /\ UNCHANGED rets

CallChangeEndianess ==
    /\ pc = "changeEndianess"
    /\ overload = "typed"
    /\ AfterCall(changeEndianess(T, Operand, endian, native), Again)
    /\ UNCHANGED inputs

CallChangeEndianessSized ==
    /\ pc = "changeEndianess"
    /\ overload = "sized"
    /\ AfterCall(changeEndianessSized(T, Operand, size, endian, native), Again)
    /\ UNCHANGED inputs

NextSwap ==
    \/ CallChangeEndianess
    \/ CallChangeEndianessSized

SpecSwap == InitSwap /\ [][NextSwap]_vars

\* ---- a caller widening a signed field of a word --------------------------
\* the target widths tried for a field of width w
TargetWidths(w) ==
    {tw \in {w, w + 1, 8, 16, 32, WordBits} : w <= tw /\ tw <= WordBits}

InitWiden ==
    /\ Start("extract field")
    /\ value \in Words
    /\ from \in BitIdx
    /\ to \in 0 .. from
    /\ currWidth = from - to + 1
    /\ targetWidth \in TargetWidths(currWidth)
    /\ NoType /\ NoSwap

WidenExtract ==
    /\ pc = "extract field"
    /\ rets' = Append(rets, extract(from, to, value))
    /\ pc' = "signExtend field"
    /\ UNCHANGED <<inputs, thrown>>

WidenSignExtend ==
    /\ pc = "signExtend field"
    /\ rets' = Append(rets, signExtend(Last(rets), currWidth, targetWidth))
    /\ pc' = "done"
    /\ UNCHANGED <<inputs, thrown>>

NextWiden ==
    \/ WidenExtract
    \/ WidenSignExtend

SpecWiden == InitWiden /\ [][NextWiden]_vars

\* ---- a caller decoding a stored field and encoding it again --------------
\* the (byte width, field) matrix: fields of these bit widths at the bottom,
\* one bit up, and at the top of the stored bytes
FieldWidths(sz) == {w \in {1, 3, 4, 8, 12, 16, 24, 32, 48, WordBits} : w <= 8 * sz}

FieldStarts(sz, w) == {t \in {0, 1, 8 * sz - w} : t + w <= 8 * sz}

InitRoundTrip ==
    /\ Start("normalize")
    /\ native \in {"little", "big"}
    /\ endian \in {"little", "big"}
    /\ overload = "sized"
    /\ T = u64T
    /\ size \in {1, 2, 4, 8}
    /\ \E class \in {0, 1} : type = MakeTag(FromNat(size), class)
    /\ \E w \in Words : value = Truncate(w, 8 * size)
    /\ currWidth \in FieldWidths(size)
    /\ to \in FieldStarts(size, currWidth)
    /\ from = to + currWidth - 1
    /\ targetWidth \in {currWidth, 8 * size, WordBits}

\* the stored bytes brought to native order
Normalize ==
    /\ pc = "normalize"
    /\ AfterCall(changeEndianessSized(T, value, size, endian, native), "extract")
    /\ UNCHANGED inputs

\* the field taken out of the normalized word
ExtractField ==
    /\ pc = "extract"
    /\ rets' = Append(rets, extract(from, to, rets[1]))
    /\ pc' = "widen"
    /\ UNCHANGED <<inputs, thrown>>

\* a signed field is sign-extended to the target width; an unsigned one is
\* used as extracted
WidenField ==
    /\ pc = "widen"
    /\ rets' = Append(rets, IF isSigned(type)
                             THEN signExtend(rets[2], currWidth, targetWidth)
                             ELSE rets[2])
    /\ pc' = "narrow"
    /\ UNCHANGED <<inputs, thrown>>

\* the low currWidth bits of the widened value
NarrowField ==
    /\ pc = "narrow"
    /\ rets' = Append(rets, extract(currWidth - 1, 0, rets[3]))
    /\ pc' = "encode"
    /\ UNCHANGED <<inputs, thrown>>

\* the field put back at its position and brought to the stored order
EncodeField ==
    /\ pc = "encode"
    /\ AfterCall(changeEndianessSized(T, Shl(rets[4], to), size, endian, native),
                 "done")
    /\ UNCHANGED inputs

NextRoundTrip ==
    \/ Normalize
    \/ ExtractField
    \/ WidenField
    \/ NarrowField
    \/ EncodeField

SpecRoundTrip == InitRoundTrip /\ [][NextRoundTrip]_vars

(***************************************************************************)
(* Properties                                                              *)
(***************************************************************************)
\* byte i of a word, as a number
Byte(x, i) ==
    LET RECURSIVE Sum(_)
        Sum(j) == IF j = 8 THEN 0 ELSE x[8 * i + j] * (2 ^ j) + Sum(j + 1)
    IN  Sum(0)

\* x < 2^bits
Below(x, bits) == \A i \in BitIdx : i >= bits => x[i] = 0

\* the first call of the caller has ended
Called == rets # <<>> \/ thrown # "none"

\* the byte width the conversion is asked for
SwapWidth == IF overload = "typed" THEN T.size ELSE size

\* C1: the sized changeEndianess throws invalid_argument exactly for the
\* byte counts outside {1, 2, 4, 8}, whatever the value and the byte order.
C1_SizedThrowsExactlyOnInvalidSize ==
    (overload = "sized" /\ Called) =>
        (thrown = "invalid_argument" <=> size \notin {1, 2, 4, 8})

\* C2: with the native order requested, or a width of one byte, both
\* overloads return the value unchanged (and throw nothing), for every byte
\* count passed.
C2_NativeOrSingleByteUnchanged ==
    (Called /\ (endian = native \/ SwapWidth = 1)) =>
        (thrown = "none" /\ rets[1] = value)

C2_Witness ==
    /\ overload = "sized" /\ endian = native /\ size = 3
    /\ rets # <<>> /\ rets[1] = value /\ value # Zero

\* C3 as claimed: two conversions with the same non-native order return the
\* original value, for the typed overload and for the sized overload with the
\* value held in a type at least as wide as the byte count.
C3_TwiceReturnsOriginal ==
    (Len(rets) = 2 /\ endian # native /\ SwapWidth \in {2, 4, 8}
                   /\ SwapWidth <= T.size) =>
        rets[2] = value

\* C3 as amended: two conversions with the same non-native order return the
\* original value for the typed overload, and the value modulo 2^(8n) for
\* the sized overload with byte count n in {2, 4, 8} on a type of at least n
\* bytes (so the original value exactly when it fits in n bytes).
C3_TwiceReturnsLowBytes ==
    (Len(rets) = 2 /\ endian # native /\ SwapWidth \in {2, 4, 8}
                   /\ SwapWidth <= T.size) =>
        /\ rets[2] = Truncate(value, 8 * SwapWidth)
        /\ overload = "typed" => rets[2] = value

C3_Witness ==
    /\ Len(rets) = 2 /\ endian # native
    /\ overload = "sized" /\ size = 2 /\ T = u64T
    /\ value # Zero /\ Below(value, 16)
    /\ rets[1] # value /\ rets[2] = value

\* C9: with a non-native order the bytes are reversed at the declared width
\* n: result byte i is input byte n-1-i for i < n; the sized overload on a
\* u64 leaves every byte at index >= n zero.
C9_ReversesAtDeclaredWidth ==
    (rets # <<>> /\ endian # native /\ SwapWidth \in {2, 4, 8}
                 /\ (overload = "typed" \/ T = u64T)) =>
        \A i \in 0 .. 7 :
            Byte(rets[1], i) = IF i < SwapWidth THEN Byte(value, SwapWidth - 1 - i)
                               ELSE 0

C9_Witness ==
    /\ rets # <<>> /\ endian # native
    /\ overload = "sized" /\ size = 2 /\ T = u64T
    /\ ~Below(value, 16)
    /\ Byte(value, 0) # Byte(value, 1)
    /\ Byte(rets[1], 0) = Byte(value, 1) /\ Byte(rets[1], 1) = Byte(value, 0)
    /\ Below(rets[1], 16)

\* the tw-bit two's-complement pattern of the signed number the low cw bits
\* of v denote: the cw bits, then copies of the sign bit up to bit tw - 1
Resized(v, cw, tw) ==
    [i \in BitIdx |-> IF i >= tw THEN 0 ELSE IF i < cw THEN v[i] ELSE v[cw - 1]]

\* C4: for widths in 1..64 and a value below 2^currWidth, signExtend returns
\* the targetWidth-bit two's-complement pattern of the signed number the
\* value denotes in currWidth bits; signExtend(value, w, w) = value.
C4_SignExtendIsTwosComplement ==
    (pc = "done" /\ Below(value, currWidth)) =>
        /\ rets[1] = Resized(value, currWidth, targetWidth)
        /\ currWidth = targetWidth => rets[1] = value

C4_Witness ==
    /\ pc = "done" /\ currWidth = 4 /\ targetWidth = 8
    /\ value = FromHex(<<0, 10>>)
    /\ rets[1] = FromHex(<<15, 10>>)

\* C10 as claimed: for currWidth <= targetWidth and every 64-bit value, the
\* result is that of the value reduced modulo 2^currWidth, and lies below
\* 2^targetWidth.
C10_HighBitsIgnored ==
    (pc = "done" /\ currWidth <= targetWidth) =>
        /\ rets[1] = signExtend(Truncate(value, currWidth), currWidth, targetWidth)
        /\ Below(rets[1], targetWidth)

\* C10 as amended: for currWidth <= targetWidth and every 64-bit value, the
\* result lies below 2^targetWidth and the bits of value at positions >=
\* targetWidth do not influence it; it equals the result for the value
\* reduced modulo 2^currWidth exactly when bits currWidth..targetWidth-1 of
\* value are zero.
C10_BitsBelowTargetWidthCount ==
    (pc = "done" /\ currWidth <= targetWidth) =>
        /\ Below(rets[1], targetWidth)
        /\ rets[1] = signExtend(Truncate(value, targetWidth), currWidth, targetWidth)
        /\ (rets[1] = signExtend(Truncate(value, currWidth), currWidth, targetWidth))
             <=> (\A i \in currWidth .. targetWidth - 1 : value[i] = 0)

C10_Witness ==
    /\ pc = "done" /\ currWidth = 4 /\ targetWidth = 8
    /\ value = FromHex(<<1, 2, 3, 4, 10, 11, 15, 15>>)
    /\ rets[1] = FromHex(<<14, 15>>)
    /\ signExtend(Truncate(value, currWidth), currWidth, targetWidth)
          = FromHex(<<15, 15>>)

\* C5: for 0 <= to <= from <= 63, extract returns bits to..from of value,
\* right-aligned: bit i of the result is bit to + i of value for
\* i <= from - to and zero above.
C5_ExtractReturnsRange ==
    pc = "done" =>
        rets[1] = [i \in BitIdx |-> IF i <= from - to THEN value[to + i] ELSE 0]

C5_Witness ==
    /\ pc = "done" /\ from = 7 /\ to = 0
    /\ value = FromHex(<<1, 2, 3, 4, 10, 11, 15, 15>>)
    /\ rets[1] = FromHex(<<15, 15>>)

\* the class nibble of a tag, as a number
LowNibble(t) == t[0] + 2 * t[1] + 4 * t[2] + 8 * t[3]

\* C6: for every 32-bit tag, isUnsigned, isSigned and isFloatingPoint hold
\* exactly for the low nibbles 0, 1 and 2, never two of them at once, and
\* getTypeSize is the tag shifted right by four bits.
C6_TagDecoding ==
    pc = "done" =>
        /\ rets[1] = (LowNibble(type) = 0)
        /\ rets[2] = (LowNibble(type) = 1)
        /\ rets[3] = (LowNibble(type) = 2)
        /\ ~(rets[1] /\ rets[2]) /\ ~(rets[1] /\ rets[3]) /\ ~(rets[2] /\ rets[3])
        /\ rets[4] = [i \in BitIdx |-> IF i + 4 < TagBits THEN type[i + 4] ELSE 0]

C6_Witness ==
    /\ pc = "done" /\ LowNibble(type) = 1 /\ rets[2] /\ ~rets[1] /\ ~rets[3]
    /\ rets[4] = FromHex(<<0, 4>>)

\* C7: for a field from..to of width w and a target width tw >= w,
\* signExtend(extract(from, to, v), w, tw) is the tw-bit two's-complement
\* pattern of the field's signed value, whatever the bits of v outside the
\* field.
C7_ExtractThenSignExtend ==
    pc = "done" =>
        rets[2] = [i \in BitIdx |->
                     IF i >= targetWidth THEN 0
                     ELSE IF i < currWidth THEN value[to + i] ELSE value[from]]

C7_Witness ==
    /\ pc = "done" /\ from = 3 /\ to = 0 /\ targetWidth = 8
    /\ rets[1] = FromHex(<<0, 10>>)
    /\ ~Below(value, 4)
    /\ rets[2] = FromHex(<<15, 10>>)

\* the position, in the normalized word, of stored bit i
NormalPos(i) ==
    IF endian = native THEN i ELSE 8 * (size - 1 - (i \div 8)) + (i % 8)

\* the stored pattern with every bit outside the field cleared
StoredField ==
    [i \in BitIdx |->
        IF i < 8 * size /\ to <= NormalPos(i) /\ NormalPos(i) <= from
        THEN value[i] ELSE 0]

\* C8: normalizing a stored pattern, extracting a field, widening it (by sign
\* extension when signed), taking its low bits again, putting them back at
\* the field's position and converting with the same order gives the stored
\* field bits back.
C8_RoundTrip ==
    pc = "done" => (thrown = "none" /\ rets[5] = StoredField)

C8_Witness ==
    /\ pc = "done" /\ isSigned(type) /\ endian # native /\ size = 2
    /\ currWidth = 12 /\ to = 1 /\ targetWidth = WordBits
    /\ rets[2][currWidth - 1] = 1
    /\ rets[3] # rets[2]
    /\ rets[5] = StoredField /\ rets[5] # rets[1] /\ rets[5] # Zero

=============================================================================
